---- MODULE Spec2Model ----
(***************************************************************************)
(* A model of pyGravatar's gravatar.py: the Gravatar object (email hash,   *)
(* presentation options, cached thumbnail link, lazily fetched profile)    *)
(* and its two exception classes.                                          *)
(*                                                                         *)
(* Python values are tagged records [t, v]: t is the Python type, v the    *)
(* payload.  A Python str is a tuple of one-character strings, so that     *)
(* lower(), strip(), str() and urlencode() are computed character by       *)
(* character.  A dict is a tuple of <<key, value>> pairs in insertion      *)
(* order, a list a tuple of values.                                        *)
(***************************************************************************)
EXTENDS Integers, Sequences, FiniteSets, TLC

\* ------------------------------------------------------------------------
\* Python values
\* ------------------------------------------------------------------------
None == [t |-> "NoneType"]
StrV(s) == [t |-> "str", v |-> s]
IntV(n) == [t |-> "int", v |-> n]
BoolV(b) == [t |-> "bool", v |-> b]
ListV(xs) == [t |-> "list", v |-> xs]
DictV(kvs) == [t |-> "dict", v |-> kvs]

\* The outcome of evaluating a Python expression: it returns a value or
\* raises an exception (exc is the exception class, value what it carries).
Return(x) == [exc |-> "none", value |-> x]
Raise(e, x) == [exc |-> e, value |-> x]

\* ------------------------------------------------------------------------
\* Module constants (gravatar.py lines 26-32)
\* ------------------------------------------------------------------------
BASE_URL == <<"h", "t", "t", "p", ":", "/", "/", "w", "w", "w", ".", "g", "r", "a", "v", "a", "t", "a", "r", ".", "c", "o", "m", "/", "a", "v", "a", "t", "a", "r", "/">>
SECURE_BASE_URL == <<"h", "t", "t", "p", "s", ":", "/", "/", "s", "e", "c", "u", "r", "e", ".", "g", "r", "a", "v", "a", "t", "a", "r", ".", "c", "o", "m", "/", "a", "v", "a", "t", "a", "r", "/">>
PROFILE_URL == <<"h", "t", "t", "p", ":", "/", "/", "w", "w", "w", ".", "g", "r", "a", "v", "a", "t", "a", "r", ".", "c", "o", "m", "/">>
RATINGS == <<<<"g">>, <<"p", "g">>, <<"r">>, <<"x">>>>
MAX_SIZE == 512
MIN_SIZE == 1

\* ------------------------------------------------------------------------
\* str methods and conversions
\* ------------------------------------------------------------------------
ascii_uppercase == <<"A", "B", "C", "D", "E", "F", "G", "H", "I", "J", "K", "L", "M", "N", "O", "P", "Q", "R", "S", "T", "U", "V", "W", "X", "Y", "Z">>
ascii_lowercase == <<"a", "b", "c", "d", "e", "f", "g", "h", "i", "j", "k", "l", "m", "n", "o", "p", "q", "r", "s", "t", "u", "v", "w", "x", "y", "z">>
digits == <<"0", "1", "2", "3", "4", "5", "6", "7", "8", "9">>
whitespace == {" ", "\t", "\n", "\r"}

\* str.lower(): every cased character is replaced by its lowercase form.
LowerChar(c) ==
    IF \E i \in 1..26 : ascii_uppercase[i] = c
    THEN ascii_lowercase[CHOOSE i \in 1..26 : ascii_uppercase[i] = c]
    ELSE c
Lower(s) == [i \in 1..Len(s) |-> LowerChar(s[i])]

\* str.strip(): leading and trailing whitespace removed.
RECURSIVE LStrip(_)
LStrip(s) == IF s # <<>> /\ Head(s) \in whitespace THEN LStrip(Tail(s)) ELSE s
RECURSIVE RStrip(_)
RStrip(s) ==
    IF s # <<>> /\ s[Len(s)] \in whitespace
    THEN RStrip(SubSeq(s, 1, Len(s) - 1)) ELSE s
Strip(s) == RStrip(LStrip(s))

\* str(n) for an int n: decimal digits, a leading minus sign when negative.
RECURSIVE IntToStr(_)
IntToStr(n) ==
    IF n < 0 THEN <<"-">> \o IntToStr(0 - n)
    ELSE IF n < 10 THEN <<digits[n + 1]>>
    ELSE IntToStr(n \div 10) \o <<digits[(n % 10) + 1]>>

\* str(x) as urlencode applies it to keys and values.
PyStr(x) ==
    CASE x.t = "str" -> x.v
      [] x.t = "int" -> IntToStr(x.v)
      [] x.t = "bool" -> IF x.v THEN <<"T", "r", "u", "e">> ELSE <<"F", "a", "l", "s", "e">>
      [] x.t = "NoneType" -> <<"N", "o", "n", "e">>

\* hashlib.md5(bytes).hexdigest(), tabulated on the addresses the model
\* constructs objects from (the first is the doctest's, line 102-103).
MD5Hex(s) ==
    CASE s = <<"g", "r", "i", "d", "a", "p", "h", "o", "b", "e", "@", "g", "m", "a", "i", "l", ".", "c", "o", "m">> -> <<"1", "6", "b", "8", "7", "d", "a", "5", "1", "0", "d", "2", "7", "8", "9", "9", "9", "c", "8", "9", "2", "c", "d", "b", "d", "d", "5", "5", "c", "1", "b", "6">>
      [] s = <<"f", "o", "o", "@", "b", "a", "r", ".", "c", "o", "m">> -> <<"f", "3", "a", "d", "a", "4", "0", "5", "c", "e", "8", "9", "0", "b", "6", "f", "8", "2", "0", "4", "0", "9", "4", "d", "e", "b", "1", "2", "d", "8", "a", "8">>

\* urllib quote_plus: letters, digits and "_.-" are kept, a space becomes
\* "+", every other character becomes %XX (its code in uppercase hex).
AlwaysSafe ==
    {ascii_uppercase[i] : i \in 1..26} \cup {ascii_lowercase[i] : i \in 1..26}
        \cup {digits[i] : i \in 1..10} \cup {"_", ".", "-"}
PercentCode(c) ==
    CASE c = "!" -> <<"%", "2", "1">> [] c = "#" -> <<"%", "2", "3">> [] c = "$" -> <<"%", "2", "4">>
      [] c = "%" -> <<"%", "2", "5">> [] c = "&" -> <<"%", "2", "6">> [] c = "'" -> <<"%", "2", "7">>
      [] c = "(" -> <<"%", "2", "8">> [] c = ")" -> <<"%", "2", "9">> [] c = "*" -> <<"%", "2", "A">>
      [] c = "+" -> <<"%", "2", "B">> [] c = "," -> <<"%", "2", "C">> [] c = "/" -> <<"%", "2", "F">>
      [] c = ":" -> <<"%", "3", "A">> [] c = ";" -> <<"%", "3", "B">> [] c = "=" -> <<"%", "3", "D">>
      [] c = "?" -> <<"%", "3", "F">> [] c = "@" -> <<"%", "4", "0">> [] c = "[" -> <<"%", "5", "B">>
      [] c = "]" -> <<"%", "5", "D">>
RECURSIVE QuotePlus(_)
QuotePlus(s) ==
    IF s = <<>> THEN <<>>
    ELSE (IF Head(s) \in AlwaysSafe THEN <<Head(s)>>
          ELSE IF Head(s) = " " THEN <<"+">>
          ELSE PercentCode(Head(s))) \o QuotePlus(Tail(s))

\* urlencode(options): key=value pairs in the dict's order, joined by "&".
RECURSIVE urlencode(_)
urlencode(options) ==
    IF options = <<>> THEN <<>>
    ELSE LET k == Head(options)[1]
             v == Head(options)[2]
             pair == QuotePlus(PyStr(k)) \o <<"=">> \o QuotePlus(PyStr(v))
         IN  IF Len(options) = 1 THEN pair
             ELSE pair \o <<"&">> \o urlencode(Tail(options))

\* ------------------------------------------------------------------------
\* Gravatar._link_to_img (lines 98-121)
\* ------------------------------------------------------------------------
InRatings(r) == \E i \in 1..Len(RATINGS) : RATINGS[i] = r

\* A variant with the bounds excluded.
SizeInRangeExclusive(n) == MIN_SIZE < n /\ n < MAX_SIZE

SizeInRange(n) == MIN_SIZE <= n /\ n <= MAX_SIZE

\* A variant that ignores the secure flag.
BaseForInsecure(sec) == BASE_URL

BaseFor(sec) == IF sec THEN SECURE_BASE_URL ELSE BASE_URL

Options(rat, sz, def) ==
    << <<StrV(<<"s">>), IntV(sz)>>, <<StrV(<<"r">>), StrV(rat)>> >>
        \o (IF def # None THEN << <<StrV(<<"d">>), def>> >> ELSE <<>>)

link_to_img(hash, sec, rat, sz, def) ==
    IF ~InRatings(Lower(rat)) THEN Raise("InvalidRatingError", StrV(rat))
    ELSE IF ~SizeInRange(sz) THEN Raise("InvalidSizeError", IntV(sz))
    ELSE Return(StrV(BaseFor(sec) \o hash \o <<"?">> \o urlencode(Options(rat, sz, def))))

\* ------------------------------------------------------------------------
\* Subscripting, iteration and "+" as Python evaluates them
\* ------------------------------------------------------------------------
HasKey(kvs, k) == \E i \in 1..Len(kvs) : kvs[i][1] = k
Lookup(kvs, k) == kvs[CHOOSE i \in 1..Len(kvs) : kvs[i][1] = k][2]

\* x[k]: a dict looks the key up (KeyError when absent), a list or a str
\* takes an int index (IndexError when out of range, TypeError for any
\* other key), every other type is not subscriptable (TypeError).
GetItem(x, k) ==
    CASE x.t = "dict" ->
           IF HasKey(x.v, k) THEN Return(Lookup(x.v, k)) ELSE Raise("KeyError", k)
      [] x.t \in {"list", "str"} ->
           IF k.t # "int" THEN Raise("TypeError", None)
           ELSE IF k.v >= 0 /\ k.v < Len(x.v)
                THEN Return(IF x.t = "str" THEN StrV(<<x.v[k.v + 1]>>) ELSE x.v[k.v + 1])
           ELSE IF k.v < 0 /\ 0 - k.v <= Len(x.v)
                THEN Return(IF x.t = "str" THEN StrV(<<x.v[Len(x.v) + k.v + 1]>>)
                            ELSE x.v[Len(x.v) + k.v + 1])
           ELSE Raise("IndexError", None)
      [] OTHER -> Raise("TypeError", None)

\* iter(x): the elements of a list, the characters of a str, the keys of a
\* dict; every other type is not iterable (TypeError).
Iter(x) ==
    CASE x.t = "list" -> Return(x.v)
      [] x.t = "str" -> Return([i \in 1..Len(x.v) |-> StrV(<<x.v[i]>>)])
      [] x.t = "dict" -> Return([i \in 1..Len(x.v) |-> x.v[i][1]])
      [] OTHER -> Raise("TypeError", None)

\* x + y: str + str concatenates, int + int adds, a str and an int do not
\* add (TypeError).
Add(x, y) ==
    CASE x.t = "str" /\ y.t = "str" -> Return(StrV(x.v \o y.v))
      [] x.t = "int" /\ y.t = "int" -> Return(IntV(x.v + y.v))
      [] OTHER -> Raise("TypeError", None)

\* ------------------------------------------------------------------------
\* The remote service: what one GET of PROFILE_URL + hash + ".json" yields
\* ------------------------------------------------------------------------
Account(name, verified) ==
    DictV(<< <<StrV(<<"s", "h", "o", "r", "t", "n", "a", "m", "e">>), StrV(name)>>, <<StrV(<<"v", "e", "r", "i", "f", "i", "e", "d">>), verified>> >>)

FullEntry ==
    DictV(<< <<StrV(<<"u", "r", "l", "s">>), ListV(<<StrV(<<"h", "t", "t", "p", ":", "/", "/", "a", ".", "b">>)>>)>>,
             <<StrV(<<"a", "c", "c", "o", "u", "n", "t", "s">>),
               ListV(<<Account(<<"t">>, StrV(<<"t", "r", "u", "e">>)), Account(<<"f">>, BoolV(TRUE)),
                       Account(<<"g">>, StrV(<<"f", "a", "l", "s", "e">>)), Account(<<"y">>, StrV(<<"t", "r", "u", "e">>))>>)>>,
             <<StrV(<<"p", "h", "o", "t", "o", "s">>), ListV(<<StrV(<<"p">>)>>)>>,
             <<StrV(<<"e", "m", "a", "i", "l", "s">>), ListV(<<StrV(<<"e">>)>>)>> >>)

Body(entry) == DictV(<< <<StrV(<<"e", "n", "t", "r", "y">>), entry>> >>)

Bodies ==
    { DictV(<<>>),                                      \* no "entry" key
      ListV(<<>>),                                      \* not an object
      Body(ListV(<<>>)),                                \* empty "entry"
      Body(IntV(5)),                                    \* "entry" not indexable
      Body(DictV(<<>>)),                                \* "entry" an object
      Body(StrV(<<"a", "b">>)),                                \* "entry" a string
      Body(ListV(<<None>>)),                            \* first element null
      Body(ListV(<<ListV(<<>>)>>)),                     \* first element a list
      Body(ListV(<<DictV(<<>>)>>)),                     \* first element {}
      Body(ListV(<<FullEntry>>)),
      Body(ListV(<<DictV(<< <<StrV(<<"a", "c", "c", "o", "u", "n", "t", "s">>),
                              ListV(<<DictV(<< <<StrV(<<"s", "h", "o", "r", "t", "n", "a", "m", "e">>), StrV(<<"n">>)>> >>)>>)>> >>)>>)),
      Body(ListV(<<DictV(<< <<StrV(<<"a", "c", "c", "o", "u", "n", "t", "s">>), IntV(7)>> >>)>>)) }

\* urlopen raises, json.load raises, or json.load returns the parsed body.
Replies ==
    {[status |-> "URLError", body |-> None], [status |-> "ValueError", body |-> None]}
        \cup {[status |-> "ok", body |-> b] : b \in Bodies}

SomeReplies ==
    {[status |-> "URLError", body |-> None],
     [status |-> "ok", body |-> Body(ListV(<<FullEntry>>))]}

\* ------------------------------------------------------------------------
\* State
\* ------------------------------------------------------------------------
VARIABLES
    alive,        \* a Gravatar object exists (its constructor returned)
    email_hash,   \* self._email_hash
    secure,       \* self._secure
    rating,       \* self._rating
    size,         \* self._size
    default,      \* self._default
    thumb,        \* self._thumb
    profile,      \* self._profile
    requests,     \* number of urlopen calls made for this object
    response,     \* what the latest urlopen call yielded
    last          \* the latest call: operation, argument, outcome

vars == <<alive, email_hash, secure, rating, size, default, thumb, profile,
          requests, response, last>>

MaxRequests == 2

Emails == {<<"g", "r", "i", "d", "a", "p", "h", "o", "b", "e", "@", "g", "m", "a", "i", "l", ".", "c", "o", "m">>, <<" ", "G", "r", "i", "d", "a", "p", "h", "o", "b", "e", "@", "G", "m", "a", "i", "l", ".", "C", "O", "M", "\n">>}
RatingInputs == {<<"g">>, <<"P", "G">>, <<"X">>, <<"Q">>}
SizeInputs == {0, 1, 80, 512, 513}
DefaultInputs == {None, StrV(<<"h", "t", "t", "p", ":", "/", "/", "a", "/", "b", " ", "c">>)}

Call(op, arg, out) == [op |-> op, arg |-> arg, exc |-> out.exc, value |-> out.value]

Init ==
    /\ alive = FALSE
    /\ email_hash = <<>>
    /\ secure = FALSE
    /\ rating = <<>>
    /\ size = 0
    /\ default = None
    /\ thumb = None
    /\ profile = None
    /\ requests = 0
    /\ response = [url |-> <<>>, status |-> "none", body |-> None]
    /\ last = Call("none", None, Return(None))

\* Gravatar.__init__ (lines 39-47): the fields are assigned, then the link
\* is generated; when that raises no object comes into existence.
Construct(email, sec, rat, sz, def) ==
    LET h == MD5Hex(Lower(Strip(email)))
        out == link_to_img(h, sec, rat, sz, def)
    IN  /\ ~alive
        /\ email_hash' = h
        /\ secure' = sec
        /\ rating' = rat
        /\ size' = sz
        /\ default' = def
        /\ thumb' = IF out.exc = "none" THEN out.value ELSE thumb
        /\ profile' = None
        /\ alive' = (out.exc = "none")
        /\ last' = Call("__init__", StrV(email), IF out.exc = "none" THEN Return(None) ELSE out)
        /\ UNCHANGED <<requests, response>>

\* An option setter (lines 54-91): store the value, then regenerate the
\* link; when that raises the assignment to _thumb does not happen.
Regenerate(op, arg, sec, rat, sz, def) ==
    LET out == link_to_img(email_hash, sec, rat, sz, def)
    IN  /\ thumb' = IF out.exc = "none" THEN out.value ELSE thumb
        /\ last' = Call(op, arg, IF out.exc = "none" THEN Return(None) ELSE out)

SetSecure(v) ==
    /\ alive
    /\ secure' = v
    /\ Regenerate("secure", BoolV(v), v, rating, size, default)
    /\ UNCHANGED <<alive, email_hash, rating, size, default, profile, requests, response>>

SetRating(v) ==
    /\ alive
    /\ rating' = v
    /\ Regenerate("rating", StrV(v), secure, v, size, default)
    /\ UNCHANGED <<alive, email_hash, secure, size, default, profile, requests, response>>

SetSize(v) ==
    /\ alive
    /\ size' = v
    /\ Regenerate("size", IntV(v), secure, rating, v, default)
    /\ UNCHANGED <<alive, email_hash, secure, rating, default, profile, requests, response>>

\* A variant that stores the value without regenerating the link.
SetDefaultNoRegenerate(v) ==
    /\ alive
    /\ default' = v
    /\ last' = Call("default", v, Return(None))
    /\ UNCHANGED <<alive, email_hash, secure, rating, size, thumb, profile, requests, response>>

SetDefault(v) ==
    /\ alive
    /\ default' = v
    /\ Regenerate("default", v, secure, rating, size, v)
    /\ UNCHANGED <<alive, email_hash, secure, rating, size, profile, requests, response>>

\* A variant whose handler stores nothing, leaving _profile at None.
get_profile_pass(reply) ==
    IF reply.status # "ok" THEN None
    ELSE LET entry == GetItem(reply.body, StrV(<<"e", "n", "t", "r", "y">>))
         IN  IF entry.exc # "none" THEN None
             ELSE LET first == GetItem(entry.value, IntV(0))
                  IN  IF first.exc # "none" THEN None ELSE first.value

\* Gravatar._get_profile (lines 123-134): the value stored in _profile
\* after one request answered by reply; any exception stores {}.
get_profile(reply) ==
    IF reply.status # "ok" THEN DictV(<<>>)
    ELSE LET entry == GetItem(reply.body, StrV(<<"e", "n", "t", "r", "y">>))
         IN  IF entry.exc # "none" THEN DictV(<<>>)
             ELSE LET first == GetItem(entry.value, IntV(0))
                  IN  IF first.exc # "none" THEN DictV(<<>>) ELSE first.value

\* Gravatar.profile (lines 143-150): fetch when _profile is None, else
\* leave the cache alone; the caller then reads self.profile (profile').
Access(replies) ==
    /\ alive
    /\ IF profile = None
       THEN /\ requests < MaxRequests
            /\ \E reply \in replies :
                 /\ profile' = get_profile(reply)
                 /\ response' = [url |-> PROFILE_URL \o email_hash \o <<".", "j", "s", "o", "n">>,
                                 status |-> reply.status, body |-> reply.body]
            /\ requests' = requests + 1
       ELSE UNCHANGED <<profile, requests, response>>
    /\ UNCHANGED <<alive, email_hash, secure, rating, size, default, thumb>>

\* The views urls, accounts, ims, photos, emails (lines 152-207):
\* self.profile[key], with KeyError turned into [].
View(p, key) ==
    LET out == GetItem(p, StrV(key))
    IN  IF out.exc = "KeyError" THEN Return(ListV(<<>>)) ELSE out

urls(p) == View(p, <<"u", "r", "l", "s">>)
accounts(p) == View(p, <<"a", "c", "c", "o", "u", "n", "t", "s">>)
ims(p) == View(p, <<"a", "c", "c", "o", "u", "n", "t", "s">>)
photos(p) == View(p, <<"p", "h", "o", "t", "o", "s">>)
emails(p) == View(p, <<"e", "m", "a", "i", "l", "s">>)

\* [a for a in xs if a['verified'] == 'true'], left to right; the first
\* subscript that raises ends the comprehension with that exception.
RECURSIVE Verified(_)
Verified(xs) ==
    IF xs = <<>> THEN Return(<<>>)
    ELSE LET v == GetItem(Head(xs), StrV(<<"v", "e", "r", "i", "f", "i", "e", "d">>))
         IN  IF v.exc # "none" THEN v
             ELSE LET rest == Verified(Tail(xs))
                  IN  IF rest.exc # "none" THEN rest
                      ELSE Return((IF v.value = StrV(<<"t", "r", "u", "e">>) THEN <<Head(xs)>> ELSE <<>>)
                                      \o rest.value)

\* Gravatar.verified_accounts (lines 172-177).
verified_accounts(p) ==
    LET acc == accounts(p)
    IN  IF acc.exc # "none" THEN acc
        ELSE LET it == Iter(acc.value)
             IN  IF it.exc # "none" THEN it
                 ELSE LET out == Verified(it.value)
                      IN  IF out.exc # "none" THEN out ELSE Return(ListV(out.value))

GetProfile(replies) == Access(replies) /\ last' = Call("profile", None, Return(profile'))
GetUrls == Access(Replies) /\ last' = Call("urls", None, urls(profile'))
GetAccounts == Access(Replies) /\ last' = Call("accounts", None, accounts(profile'))
GetVerifiedAccounts ==
    Access(Replies) /\ last' = Call("verified_accounts", None, verified_accounts(profile'))
GetIms == Access(Replies) /\ last' = Call("ims", None, ims(profile'))
GetPhotos == Access(Replies) /\ last' = Call("photos", None, photos(profile'))
GetEmails == Access(Replies) /\ last' = Call("emails", None, emails(profile'))

\* InvalidRatingError.__str__ and InvalidSizeError.__str__ (lines 210-220).
RatingErrorStr(value) == Add(value, StrV(<<" ", "i", "s", " ", "n", "o", "t", " ", "a", " ", "v", "a", "l", "i", "d", " ", "g", "r", "a", "v", "a", "t", "a", "r", " ", "r", "a", "t", "i", "n", "g">>))
SizeErrorStr(value) == Add(value, StrV(<<" ", "i", "s", " ", "n", "o", "t", " ", "a", " ", "v", "a", "l", "i", "d", " ", "i", "m", "a", "g", "e", " ", "s", "i", "z", "e">>))

\* The caller renders the exception the latest call raised: str(e).
RenderRatingError ==
    /\ last.exc = "InvalidRatingError"
    /\ last.op # "__str__"
    /\ last' = Call("__str__", last.value, RatingErrorStr(last.value))
    /\ UNCHANGED <<alive, email_hash, secure, rating, size, default, thumb,
                   profile, requests, response>>

RenderSizeError ==
    /\ last.exc = "InvalidSizeError"
    /\ last.op # "__str__"
    /\ last' = Call("__str__", last.value, SizeErrorStr(last.value))
    /\ UNCHANGED <<alive, email_hash, secure, rating, size, default, thumb,
                   profile, requests, response>>

\* The option side of the object: construction with any arguments, the
\* four setters, the rendering of a raised error, and the profile property
\* against a service that fails or serves a full entry.
Next ==
    \/ \E email \in Emails, sec \in BOOLEAN, rat \in RatingInputs,
          sz \in SizeInputs, def \in DefaultInputs : Construct(email, sec, rat, sz, def)
    \/ \E v \in BOOLEAN : SetSecure(v)
    \/ \E v \in RatingInputs : SetRating(v)
    \/ \E v \in SizeInputs : SetSize(v)
    \/ \E v \in DefaultInputs : SetDefault(v)
    \/ GetProfile(SomeReplies)
    \/ RenderRatingError
    \/ RenderSizeError

Spec == Init /\ [][Next]_vars

\* The profile side: an object constructed with the constructor's default
\* options (line 39), then any sequence of accesses to the profile and its
\* views, each request answered by any reply.
NextProfile ==
    \/ \E email \in Emails, sec \in BOOLEAN : Construct(email, sec, <<"g">>, 80, None)
    \/ GetProfile(Replies)
    \/ GetUrls
    \/ GetAccounts
    \/ GetVerifiedAccounts
    \/ GetIms
    \/ GetPhotos
    \/ GetEmails

SpecProfile == Init /\ [][NextProfile]_vars

\* ------------------------------------------------------------------------
\* Reading a URL back
\* ------------------------------------------------------------------------
StartsWith(s, prefix) ==
    Len(prefix) <= Len(s) /\ SubSeq(s, 1, Len(prefix)) = prefix
DropPrefix(s, prefix) == SubSeq(s, Len(prefix) + 1, Len(s))

\* The pieces of s between occurrences of the character sep.
RECURSIVE SplitOn(_, _)
SplitOn(s, sep) ==
    IF \A i \in 1..Len(s) : s[i] # sep THEN <<s>>
    ELSE LET i == CHOOSE j \in 1..Len(s) : s[j] = sep /\ \A k \in 1..(j - 1) : s[k] # sep
         IN  <<SubSeq(s, 1, i - 1)>> \o SplitOn(SubSeq(s, i + 1, Len(s)), sep)

\* The key=value pairs after the "?" of url, and the values given for key.
QueryPairs(url) ==
    LET parts == SplitOn(url, "?")
    IN  IF Len(parts) < 2 THEN <<>>
        ELSE [i \in 1..Len(SplitOn(parts[2], "&")) |-> SplitOn(SplitOn(parts[2], "&")[i], "=")]
ParamValues(url, key) ==
    LET pairs == {QueryPairs(url)[i] : i \in 1..Len(QueryPairs(url))}
    IN  {pr[2] : pr \in {q \in pairs : Len(q) = 2 /\ q[1] = key}}

ValidStored ==
    /\ Lower(rating) \in {<<"g">>, <<"p", "g">>, <<"r">>, <<"x">>}
    /\ size \in 1..512

Setters == {"secure", "rating", "size", "default"}
Views == {"urls", "accounts", "ims", "photos", "emails"}

\* ------------------------------------------------------------------------
\* Properties
\* ------------------------------------------------------------------------

\* C1: whatever calls were made and however they ended, the cached thumbnail
\* link is the link assembled from the options currently stored.
C1_ThumbNeverStale ==
    alive => link_to_img(email_hash, secure, rating, size, default) = Return(thumb)

\* C2: constructing with a rating that is g, pg, r or x in any letter case
\* and a size in 1..512 succeeds, and the link's r parameter is the
\* lowercased rating and its s parameter the size.
C2_LowercasedRatingInLink ==
    (last.op = "__init__" /\ ValidStored) =>
        /\ alive
        /\ last.exc = "none"
        /\ ParamValues(thumb.v, <<"r">>) = {Lower(rating)}
        /\ ParamValues(thumb.v, <<"s">>) = {IntToStr(size)}

\* C3: construction and every rating or size assignment raises
\* InvalidRatingError carrying the rating as given when its lowercase form is
\* not a rating, raises InvalidSizeError carrying the size when the rating is
\* valid and the size is outside 1..512, and returns normally otherwise.
C3_ValidationOutcome ==
    last.op \in {"__init__", "rating", "size"} =>
        LET badRating == Lower(rating) \notin {<<"g">>, <<"p", "g">>, <<"r">>, <<"x">>}
            badSize == size \notin 1..512
        IN  /\ badRating => last.exc = "InvalidRatingError" /\ last.value = StrV(rating)
            /\ (~badRating /\ badSize) =>
                   last.exc = "InvalidSizeError" /\ last.value = IntV(size)
            /\ (~badRating /\ ~badSize) => last.exc = "none"

C3_Witness ==
    /\ last.op = "size"
    /\ last.exc = "InvalidSizeError"
    /\ last.value = IntV(513)
    /\ rating = <<"P", "G">>

\* C4: one object issues at most one network request, whatever the replies.
C4_AtMostOneRequest == requests <= 1

\* C5: when the request fails (urlopen or the JSON parser raises, the body
\* has no "entry", "entry" is empty or cannot be indexed) the cached profile
\* is {}, the profile property returns {} and every view returns [].
C5_FailedFetchIsEmpty ==
    LET b == response.body
        failed ==
            \/ response.status \in {"URLError", "ValueError"}
            \/ /\ response.status = "ok"
               /\ \/ b.t # "dict"
                  \/ ~HasKey(b.v, StrV(<<"e", "n", "t", "r", "y">>))
                  \/ Lookup(b.v, StrV(<<"e", "n", "t", "r", "y">>)).t \notin {"list", "str"}
                  \/ Lookup(b.v, StrV(<<"e", "n", "t", "r", "y">>)).v = <<>>
    IN  (requests > 0 /\ failed) =>
            /\ profile = DictV(<<>>)
            /\ last.exc = "none"
            /\ last.op = "profile" => last.value = DictV(<<>>)
            /\ last.op \in Views \cup {"verified_accounts"} => last.value = ListV(<<>>)

C5_Witness ==
    /\ requests = 1
    /\ response.status = "ok"
    /\ response.body = Body(ListV(<<>>))
    /\ last.op = "verified_accounts"
    /\ last.value = ListV(<<>>)

\* C6: verified_accounts returns, in order, the accounts whose "verified" is
\* the string "true", and does not fail for any list of account mappings,
\* those without a "verified" field included.
C6_VerifiedAccountsTotal ==
    (/\ last.op = "verified_accounts"
     /\ profile.t = "dict"
     /\ HasKey(profile.v, StrV(<<"a", "c", "c", "o", "u", "n", "t", "s">>))
     /\ Lookup(profile.v, StrV(<<"a", "c", "c", "o", "u", "n", "t", "s">>)).t = "list"
     /\ \A i \in 1..Len(Lookup(profile.v, StrV(<<"a", "c", "c", "o", "u", "n", "t", "s">>)).v) :
            Lookup(profile.v, StrV(<<"a", "c", "c", "o", "u", "n", "t", "s">>)).v[i].t = "dict") =>
        /\ last.exc = "none"
        /\ last.value =
               ListV(SelectSeq(Lookup(profile.v, StrV(<<"a", "c", "c", "o", "u", "n", "t", "s">>)).v,
                               LAMBDA a : /\ HasKey(a.v, StrV(<<"v", "e", "r", "i", "f", "i", "e", "d">>))
                                          /\ Lookup(a.v, StrV(<<"v", "e", "r", "i", "f", "i", "e", "d">>)) = StrV(<<"t", "r", "u", "e">>)))

\* C7: with a valid stored rating and size, assigning secure the other value
\* returns normally and swaps the link's origin between the HTTP and the
\* HTTPS one, leaving the rest of the link, the stored rating, size and
\* default, the hash and the profile cache as they were.
C7_SecureSwapsOrigin ==
    [][(alive /\ ValidStored /\ last'.op = "secure" /\ secure' # secure) =>
          LET from == IF secure THEN <<"h", "t", "t", "p", "s", ":", "/", "/", "s", "e", "c", "u", "r", "e", ".", "g", "r", "a", "v", "a", "t", "a", "r", ".", "c", "o", "m", "/", "a", "v", "a", "t", "a", "r", "/">>
                                ELSE <<"h", "t", "t", "p", ":", "/", "/", "w", "w", "w", ".", "g", "r", "a", "v", "a", "t", "a", "r", ".", "c", "o", "m", "/", "a", "v", "a", "t", "a", "r", "/">>
              to == IF secure THEN <<"h", "t", "t", "p", ":", "/", "/", "w", "w", "w", ".", "g", "r", "a", "v", "a", "t", "a", "r", ".", "c", "o", "m", "/", "a", "v", "a", "t", "a", "r", "/">>
                              ELSE <<"h", "t", "t", "p", "s", ":", "/", "/", "s", "e", "c", "u", "r", "e", ".", "g", "r", "a", "v", "a", "t", "a", "r", ".", "c", "o", "m", "/", "a", "v", "a", "t", "a", "r", "/">>
          IN  /\ last'.exc = "none"
              /\ StartsWith(thumb.v, from)
              /\ thumb'.v = to \o DropPrefix(thumb.v, from)
              /\ StartsWith(DropPrefix(thumb.v, from), email_hash)
              /\ UNCHANGED <<email_hash, rating, size, default, profile, requests>>]_vars

C7_Witness ==
    /\ alive
    /\ last.op = "secure"
    /\ last.exc = "none"
    /\ secure
    /\ StartsWith(thumb.v, SECURE_BASE_URL)
    /\ default # None
    /\ profile \notin {None, DictV(<<>>)}

\* C8: whatever a fetch left in the cache, the views urls, accounts, ims,
\* photos and emails return normally.
C8_ViewsNeverRaise == last.op \in Views => last.exc = "none"

\* C9: a setter call returns normally exactly when the stored rating and the
\* stored size are both valid after the store, and otherwise raises
\* InvalidRatingError (checked first) or InvalidSizeError; so while an
\* option is invalid, assigning any other option raises as well.
C9_SettersRevalidate ==
    /\ [](last.op \in Setters =>
            LET badRating == Lower(rating) \notin {<<"g">>, <<"p", "g">>, <<"r">>, <<"x">>}
                badSize == size \notin 1..512
            IN  last.exc = IF badRating THEN "InvalidRatingError"
                           ELSE IF badSize THEN "InvalidSizeError" ELSE "none")
    /\ [][(/\ alive
           /\ last'.op \in Setters
           /\ \/ Lower(rating) \notin {<<"g">>, <<"p", "g">>, <<"r">>, <<"x">>} /\ last'.op # "rating"
              \/ size \notin 1..512 /\ last'.op # "size")
          => last'.exc \in {"InvalidRatingError", "InvalidSizeError"}]_vars

C9_Witness ==
    /\ last.op \in {"secure", "default"}
    /\ last.exc = "InvalidSizeError"
    /\ last.value = IntV(0)

\* C10: a raised validation error renders as its message.
C10_ErrorsRender ==
    last.op = "__str__" =>
        /\ last.exc = "none"
        /\ \/ last.value = StrV(PyStr(last.arg) \o <<" ", "i", "s", " ", "n", "o", "t", " ", "a", " ", "v", "a", "l", "i", "d", " ", "i", "m", "a", "g", "e", " ", "s", "i", "z", "e">>)
           \/ last.value = StrV(PyStr(last.arg) \o <<" ", "i", "s", " ", "n", "o", "t", " ", "a", " ", "v", "a", "l", "i", "d", " ", "g", "r", "a", "v", "a", "t", "a", "r", " ", "r", "a", "t", "i", "n", "g">>)

====
